---- MODULE Spec2Model ----
(***************************************************************************)
(* A model of the supertomo multi-view registration pipeline               *)
(* (reconstruction/registration_mv.py) and of the HDF5 import script       *)
(* (bin/import.py).                                                        *)
(*                                                                         *)
(* Numbers: coordinates and matrix entries are integers.  Rotation angles  *)
(* are whole quarter turns, so that the sine and cosine of every angle is  *)
(* an integer and the affine algebra is exact.  Image sizes are odd, so    *)
(* that the continuous index (n - 1) / 2.0 of the image centre is whole.   *)
(***************************************************************************)
EXTENDS Integers, Sequences, FiniteSets, TLC

VARIABLES
    \* ---- MultiViewRegistration (registration_mv.py) ----
    constructed,      \* "yes" after __init__ returned, "raised" if it raised, "no" without a pipeline
    options,          \* self.options
    registration,     \* self.registration: the metric configured by __init__
    fixed_index,      \* self.fixed_index
    moving_index,     \* self.moving_index
    final_transform,  \* self.final_transform
    data,             \* the ImageData archive: views, transforms, active image, closed
    ret,              \* outcome of the last call: [op, exception, value]
    last_job,         \* history: the locals of the last execute() that ran to its end
    \* ---- transform algebra of execute(), lines 185-198, on its own ----
    manual_transform, \* (A0, c0, t0)
    result,           \* (A1, c1, t1)
    combined,         \* what lines 193-198 build from the two
    reversed,         \* what they build with the two transforms exchanged
    \* ---- import script (bin/import.py) ----
    directory,        \* os.listdir(directory): a sequence of files
    pc,               \* position of main(): "images", "transforms", "close", "done", "raised"; "off" when not run
    pos,              \* index of the next entry of the running for loop
    image_name,       \* the loop variable image_name, which outlives the first loop
    warnings,         \* names printed as skipped
    added,            \* history: names of the files whose add_* / add_transform call returned
    \* ---- padding of arrays (processing/ndarray.py) ----
    array,            \* the array handed to expand_to_shape
    target_shape,     \* the shape it is expanded to
    expanded_data,    \* what expand_to_shape returned
    contracted        \* what contract_to_shape returned for it and array.shape

vars == <<constructed, options, registration, fixed_index, moving_index,
          final_transform, data, ret, last_job,
          manual_transform, result, combined, reversed,
          directory, pc, pos, image_name, warnings, added,
          array, target_shape, expanded_data, contracted>>

regVars == <<constructed, options, registration, fixed_index, moving_index,
             final_transform, data, ret, last_job>>
algVars == <<manual_transform, result, combined, reversed>>
impVars == <<directory, pc, pos, image_name, warnings, added>>
padVars == <<array, target_shape, expanded_data, contracted>>

-----------------------------------------------------------------------------
(* Bounds of the model *)

\* Views have indices 0 .. MaxIndex; index 0 is the reference.
MaxIndex == 1

\* Python's None, as a value that compares with records.
None == [none |-> TRUE]

-----------------------------------------------------------------------------
(* Vectors and matrices: numpy arrays of shape (3,) and (3, 3) *)

Axes == 1..3

VAdd(u, v) == <<u[1] + v[1], u[2] + v[2], u[3] + v[3]>>

VSub(u, v) == <<u[1] - v[1], u[2] - v[2], u[3] - v[3]>>

\* one entry of a dot product: row r against column (or vector) c
Dot3(r, c) == r[1] * c[1] + r[2] * c[2] + r[3] * c[3]

Column(B, j) == <<B[1][j], B[2][j], B[3][j]>>

\* numpy.dot of a (3, 3) array and a (3,) array
DotMV(A, v) == <<Dot3(A[1], v), Dot3(A[2], v), Dot3(A[3], v)>>

\* numpy.dot of two (3, 3) arrays
DotMM(A, B) ==
    <<<<Dot3(A[1], Column(B, 1)), Dot3(A[1], Column(B, 2)), Dot3(A[1], Column(B, 3))>>,
      <<Dot3(A[2], Column(B, 1)), Dot3(A[2], Column(B, 2)), Dot3(A[2], Column(B, 3))>>,
      <<Dot3(A[3], Column(B, 1)), Dot3(A[3], Column(B, 2)), Dot3(A[3], Column(B, 3))>>>>

\* ndarray.flatten(): row-major
flatten(M) ==
    <<M[1][1], M[1][2], M[1][3],
      M[2][1], M[2][2], M[2][3],
      M[3][1], M[3][2], M[3][3]>>

\* numpy.asarray(flat).reshape(3, 3): row-major
reshape(f) ==
    <<<<f[1], f[2], f[3]>>, <<f[4], f[5], f[6]>>, <<f[7], f[8], f[9]>>>>

I3 == <<<<1, 0, 0>>, <<0, 1, 0>>, <<0, 0, 1>>>>

Zero3 == <<0, 0, 0>>

-----------------------------------------------------------------------------
(* SimpleITK transforms, as far as execute() uses them *)

\* cos and sin of an angle given in degrees, a whole number of quarter turns
\* (get_rotation_angle(radians=True) followed by the library's cos / sin)
Cos(deg) ==
    CASE deg % 360 = 0   -> 1
      [] deg % 360 = 90  -> 0
      [] deg % 360 = 180 -> -1
      [] deg % 360 = 270 -> 0

Sin(deg) ==
    CASE deg % 360 = 0   -> 0
      [] deg % 360 = 90  -> 1
      [] deg % 360 = 180 -> 0
      [] deg % 360 = 270 -> -1

RotX(a) == <<<<1, 0, 0>>, <<0, Cos(a), -Sin(a)>>, <<0, Sin(a), Cos(a)>>>>
RotY(a) == <<<<Cos(a), 0, Sin(a)>>, <<0, 1, 0>>, <<-Sin(a), 0, Cos(a)>>>>
RotZ(a) == <<<<Cos(a), -Sin(a), 0>>, <<Sin(a), Cos(a), 0>>, <<0, 0, 1>>>>

\* sitk.Euler3DTransform after SetCenter, SetRotation(ax, ay, az), SetTranslation:
\* GetMatrix() is the flat row-major rotation matrix Rz * Rx * Ry.
Euler3DTransform(center, ax, ay, az, translation) ==
    [matrix      |-> flatten(DotMM(RotZ(az), DotMM(RotX(ax), RotY(ay)))),
     center      |-> center,
     translation |-> translation]

\* sitk.AffineTransform(matrix, translation, fixedCenter)
AffineTransform(matrix, translation, center) ==
    [matrix |-> matrix, center |-> center, translation |-> translation]

\* A transform (A, c, t) maps the point x to A (x - c) + c + t.
TransformPoint(T, x) ==
    VAdd(VAdd(DotMV(reshape(T.matrix), VSub(x, T.center)), T.center), T.translation)

\* CombineTransforms with the manual transform's centre kept as the centre
CombineTransforms_center0(manual, estimated) ==
    LET A0 == reshape(manual.matrix)
        c0 == manual.center
        t0 == manual.translation
        A1 == reshape(estimated.matrix)
        c1 == estimated.center
        t1 == estimated.translation
    IN  AffineTransform(flatten(DotMM(A0, A1)),
                        VSub(VAdd(VAdd(DotMV(A0, VSub(VAdd(t1, c1), c0)), t0), c0), c1),
                        c0)

\* CombineTransforms with the matrices multiplied in the other order
CombineTransforms_swapped(manual, estimated) ==
    LET A0 == reshape(manual.matrix)
        c0 == manual.center
        t0 == manual.translation
        A1 == reshape(estimated.matrix)
        c1 == estimated.center
        t1 == estimated.translation
    IN  AffineTransform(flatten(DotMM(A1, A0)),
                        VSub(VAdd(VAdd(DotMV(A0, VSub(VAdd(t1, c1), c0)), t0), c0), c1),
                        c1)

\* CombineTransforms with the "+ c0" term of the translation left out
CombineTransforms_lost_c0(manual, estimated) ==
    LET A0 == reshape(manual.matrix)
        c0 == manual.center
        t0 == manual.translation
        A1 == reshape(estimated.matrix)
        c1 == estimated.center
        t1 == estimated.translation
    IN  AffineTransform(flatten(DotMM(A0, A1)),
                        VSub(VAdd(DotMV(A0, VSub(VAdd(t1, c1), c0)), t0), c1),
                        c1)

\* CombineTransforms returning an AffineTransform that was never given the
\* combined matrix, translation and center
CombineTransforms_unset(manual, estimated) ==
    AffineTransform(flatten(I3), Zero3, Zero3)

\* execute(), lines 185-198: the manual transform and the optimizer's
\* result combined into one AffineTransform.
CombineTransforms(manual, estimated) ==
    LET A0 == reshape(manual.matrix)
        c0 == manual.center
        t0 == manual.translation
        A1 == reshape(estimated.matrix)
        c1 == estimated.center
        t1 == estimated.translation
        combined_mat == DotMM(A0, A1)
        combined_center == c1
        combined_translation ==
            VSub(VAdd(VAdd(DotMV(A0, VSub(VAdd(t1, c1), c0)), t0), c0), c1)
    IN  AffineTransform(flatten(combined_mat), combined_translation, combined_center)

-----------------------------------------------------------------------------
(* The ImageData archive, as far as the two programs use it *)

ViewKey(type, scale, index, channel) == <<type, scale, index, channel>>

TransformKey(scale, index, channel) == <<scale, index, channel>>

check_if_exists(d, type, index, channel, scale) ==
    ViewKey(type, scale, index, channel) \in DOMAIN d.views

\* set_active_image finds the stored view or raises
can_set_active_image(d, index, channel, scale, type) ==
    check_if_exists(d, type, index, channel, scale)

set_active_image(d, index, channel, scale, type) ==
    [d EXCEPT !.active = ViewKey(type, scale, index, channel)]

get_itk_image(d) == d.views[d.active].images

get_rotation_angle(d) == d.views[d.active].angle

\* image.TransformContinuousIndexToPhysicalPoint of the index-space centre
\* [(n - 1) / 2.0 for n in image.GetSize()], for an image with odd sizes,
\* origin 0 and axis-aligned directions
PhysicalCenter(image) ==
    <<image.spacing[1] * ((image.size[1] - 1) \div 2),
      image.spacing[2] * ((image.size[2] - 1) \div 2),
      image.spacing[3] * ((image.size[3] - 1) \div 2)>>

-----------------------------------------------------------------------------
(* MultiViewRegistration *)

SupportedMetrics == {"mattes", "correlation", "mean-squared-difference"}


\* the metric each name configures on self.registration
MetricOf(name) ==
    CASE name = "mattes"                  -> "MattesMutualInformation"
      [] name = "correlation"             -> "Correlation"
      [] name = "mean-squared-difference" -> "MeanSquares"

Options(method, rot_axis, offsets) ==
    [registration_method |-> method, rot_axis |-> rot_axis, offsets |-> offsets,
     channel |-> 0, scale |-> 100]

\* the command lines tried: every metric name, every rotation axis, both offsets
OptionChoices ==
    {Options("mattes", 0, [x_offset |-> 0, y_offset |-> 0, z_offset |-> 0]),
     Options("correlation", 1, [x_offset |-> 1, y_offset |-> 2, z_offset |-> 0]),
     Options("mean-squared-difference", 2, [x_offset |-> 1, y_offset |-> 2, z_offset |-> 0]),
     Options("mean-squared-difference", 0, [x_offset |-> 1, y_offset |-> 2, z_offset |-> 0]),
     Options("cross-correlation", 0, [x_offset |-> 0, y_offset |-> 0, z_offset |-> 0]),
     Options("", 1, [x_offset |-> 1, y_offset |-> 2, z_offset |-> 0])}

Indices == 0..MaxIndex

\* the original view stored at an index: index i was acquired after i quarter turns
OriginalView(i) ==
    [images  |-> [size |-> <<2 * i + 1, 3, 5>>, spacing |-> <<1, 2, 1>>, id |-> <<"original", i>>],
     angle   |-> (90 * i) % 360]

RegisteredView(i) ==
    [images  |-> [size |-> <<1, 3, 5>>, spacing |-> <<1, 2, 1>>, id |-> <<"registered", i>>],
     angle   |-> (90 * i) % 360]

\* a stored transform: (type, parameters, fixed_parameters)
StoredTransform(T) ==
    [type |-> "AffineTransform", parameters |-> T.matrix \o T.translation,
     fixed_parameters |-> T.center]

\* An archive holding every original view and the registered views (with their
\* transforms) of the indices in R.
ArchiveWith(R) ==
    [views      |-> [k \in {ViewKey("original", 100, i, 0) : i \in Indices}
                           \cup {ViewKey("registered", 100, i, 0) : i \in R}
                       |-> IF k[1] = "original" THEN OriginalView(k[3])
                                                ELSE RegisteredView(k[3])],
     transforms |-> [k \in {TransformKey(100, i, 0) : i \in R}
                       |-> StoredTransform(AffineTransform(flatten(I3), Zero3, <<k[2], 0, 0>>))],
     active     |-> <<>>,
     closed     |-> FALSE]

\* what the optimizer can return as sitk.AffineTransform(result)
EstimatedTransforms ==
    {AffineTransform(flatten(I3), Zero3, <<0, 2, 2>>),
     AffineTransform(flatten(<<<<2, 0, 0>>, <<0, 1, 0>>, <<0, 0, 3>>>>), <<0, 1, -1>>, <<0, 2, 2>>),
     AffineTransform(flatten(<<<<1, 1, 0>>, <<0, 1, 0>>, <<2, 0, 1>>>>), <<1, 0, 2>>, <<1, 0, 3>>)}

Outcome(op, exception, value) == [op |-> op, exception |-> exception, value |-> value]

\* __init__: the state it leaves (lines 28-80)
init_unchecked(opts, d) ==
    /\ data = d
    /\ options = opts
    /\ fixed_index = 0
    /\ moving_index = 1
    /\ final_transform = None
    /\ last_job = None
    /\ constructed = "yes"
    /\ registration =
         [metric |-> IF opts.registration_method \in SupportedMetrics
                     THEN MetricOf(opts.registration_method) ELSE "default"]
    /\ ret = Outcome("__init__", "none", None)

init(opts, d) ==
    /\ data = d
    /\ options = opts
    /\ fixed_index = 0
    /\ moving_index = 1
    /\ final_transform = None
    /\ last_job = None
    /\ IF opts.registration_method \in SupportedMetrics
       THEN /\ constructed = "yes"
            /\ registration = [metric |-> MetricOf(opts.registration_method)]
            /\ ret = Outcome("__init__", "none", None)
       ELSE /\ constructed = "raised"
            /\ registration = [metric |-> "default"]
            /\ ret = Outcome("__init__", "ValueError", None)

set_moving_image(index) ==
    /\ constructed = "yes"
    /\ moving_index' = index
    /\ ret' = Outcome("set_moving_image", "none", None)
    /\ UNCHANGED <<constructed, options, registration, fixed_index,
                   final_transform, data, last_job>>
    /\ UNCHANGED <<algVars, impVars, padVars>>

set_fixed_image(index) ==
    /\ constructed = "yes"
    /\ fixed_index' = index
    /\ ret' = Outcome("set_fixed_image", "none", None)
    /\ UNCHANGED <<constructed, options, registration, moving_index,
                   final_transform, data, last_job>>
    /\ UNCHANGED <<algVars, impVars, padVars>>

\* get_final_transform refusing to return None
get_final_transform_raises ==
    /\ constructed = "yes"
    /\ ret' = IF final_transform = None
              THEN Outcome("get_final_transform", "NotReadyError", None)
              ELSE Outcome("get_final_transform", "none", final_transform)
    /\ UNCHANGED <<constructed, options, registration, fixed_index, moving_index,
                   final_transform, data, last_job>>
    /\ UNCHANGED <<algVars, impVars, padVars>>

get_final_transform ==
    /\ constructed = "yes"
    /\ ret' = Outcome("get_final_transform", "none", final_transform)
    /\ UNCHANGED <<constructed, options, registration, fixed_index, moving_index,
                   final_transform, data, last_job>>
    /\ UNCHANGED <<algVars, impVars, padVars>>

\* execute(), lines 115-134: the manual transform of the moving image
ManualTransform(d, opts, moving_image) ==
    LET rotation_center == PhysicalCenter(moving_image)
        initial_rotation == get_rotation_angle(d)
        translation == <<opts.offsets.y_offset, opts.offsets.x_offset, opts.offsets.z_offset>>
    IN  IF opts.rot_axis = 0
        THEN Euler3DTransform(rotation_center, initial_rotation, 0, 0, translation)
        ELSE IF opts.rot_axis = 1
        THEN Euler3DTransform(rotation_center, 0, initial_rotation, 0, translation)
        ELSE Euler3DTransform(rotation_center, 0, 0, initial_rotation, translation)

\* execute_skipped dropping the stored result of the moving view before returning
execute_skipped_drops(d) ==
    /\ data' = [d EXCEPT !.transforms =
                   [k \in DOMAIN d.transforms \
                          {TransformKey(options.scale, moving_index, options.channel)}
                      |-> d.transforms[k]]]
    /\ ret' = Outcome("execute", "none", [skipped |-> TRUE])
    /\ UNCHANGED <<final_transform, last_job>>

\* execute(), lines 99-101: the caller chose to skip; d is the archive handle
\* after line 88
execute_skipped(d) ==
    /\ data' = d
    /\ ret' = Outcome("execute", "none", [skipped |-> TRUE])
    /\ UNCHANGED <<final_transform, last_job>>

\* execute_failed with a registered view stored before the optimizer ran
execute_failed_writes(d) ==
    /\ data' = [d EXCEPT !.views =
                   [k \in DOMAIN d.views \cup
                          {ViewKey("registered", options.scale, moving_index, options.channel)}
                      |-> IF k \in DOMAIN d.views /\ k[1] = "original"
                          THEN d.views[k] ELSE d.views[d.active]]]
    /\ ret' = Outcome("execute", "RuntimeError", None)
    /\ UNCHANGED <<final_transform, last_job>>

\* execute(), line 172: the optimizer raised; d is the archive handle after line 104
execute_failed(d) ==
    /\ data' = d
    /\ ret' = Outcome("execute", "RuntimeError", None)
    /\ UNCHANGED <<final_transform, last_job>>

\* execute_completed without the assignment to self.final_transform
execute_completed_unstored(d, manual, estimated) ==
    /\ data' = d
    /\ last_job' = [fixed_index |-> fixed_index, moving_index |-> moving_index,
                    manual_transform |-> manual, result |-> estimated]
    /\ ret' = Outcome("execute", "none", [skipped |-> FALSE])
    /\ UNCHANGED final_transform

\* execute(), lines 175-204: the optimizer returned `estimated`
execute_completed(d, manual, estimated) ==
    /\ data' = d
    /\ final_transform' = CombineTransforms(manual, estimated)
    /\ last_job' = [fixed_index |-> fixed_index, moving_index |-> moving_index,
                    manual_transform |-> manual, result |-> estimated]
    /\ ret' = Outcome("execute", "none", [skipped |-> FALSE])

\* execute(): user_skips is the answer to get_user_input; estimated is what
\* self.registration.Execute returns, None when it raises
execute ==
    /\ constructed = "yes"
    /\ \E user_skips \in BOOLEAN, estimated \in EstimatedTransforms \cup {None} :
         LET d1 == set_active_image(data, fixed_index, options.channel,
                                    options.scale, "original")
             d2 == set_active_image(d1, moving_index, options.channel,
                                    options.scale, "original")
             moving_image == get_itk_image(d2)
             manual == ManualTransform(d2, options, moving_image)
         IN  IF /\ check_if_exists(d1, "registered", moving_index,
                                   options.channel, options.scale)
                /\ user_skips
             THEN execute_skipped(d1)
             ELSE IF estimated = None
             THEN execute_failed(d2)
             ELSE execute_completed(d2, manual, estimated)
    /\ UNCHANGED <<constructed, options, registration, fixed_index, moving_index>>
    /\ UNCHANGED <<algVars, impVars, padVars>>

\* the other programs' variables while the registration runs
AlgIdle ==
    manual_transform = None /\ result = None /\ combined = None /\ reversed = None

ImpIdle ==
    /\ directory = <<>> /\ pc = "off" /\ pos = 0 /\ image_name = ""
    /\ warnings = {} /\ added = {}

PadIdle ==
    array = None /\ target_shape = <<>> /\ expanded_data = None /\ contracted = None

RegIdle ==
    /\ constructed = "no" /\ options = None /\ registration = None
    /\ fixed_index = 0 /\ moving_index = 1 /\ final_transform = None
    /\ data = None /\ ret = None /\ last_job = None

InitReg ==
    /\ \E opts \in OptionChoices, R \in SUBSET (Indices \ {0}) : init(opts, ArchiveWith(R))
    /\ AlgIdle
    /\ ImpIdle
    /\ PadIdle

NextReg ==
    \/ \E index \in Indices : set_moving_image(index)
    \/ \E index \in Indices : set_fixed_image(index)
    \/ execute
    \/ get_final_transform

SpecReg == InitReg /\ [][NextReg]_vars

-----------------------------------------------------------------------------
(* The transform algebra of execute() on its own *)

Angles == {0, 90, 180, 270}

\* manual transforms as execute() builds them: one rotation axis, a centre, an offset
ManualChoices ==
    {Euler3DTransform(c, a, 0, 0, t) : c \in {<<0, 2, 2>>, <<1, 2, 0>>}, a \in Angles,
                                       t \in {Zero3, <<2, 1, 0>>}}
    \cup
    {Euler3DTransform(c, 0, a, 0, t) : c \in {<<0, 2, 2>>, <<1, 2, 0>>}, a \in Angles,
                                       t \in {Zero3, <<2, 1, 0>>}}
    \cup
    {Euler3DTransform(c, 0, 0, a, t) : c \in {<<0, 2, 2>>, <<1, 2, 0>>}, a \in Angles,
                                       t \in {Zero3, <<2, 1, 0>>}}

EstimatedChoices ==
    {AffineTransform(flatten(A), t, c) :
        A \in {I3, <<<<2, 0, 0>>, <<0, 1, 0>>, <<0, 0, 3>>>>,
                   <<<<1, 1, 0>>, <<0, 1, 0>>, <<2, 0, 1>>>>},
        t \in {Zero3, <<0, 1, -1>>},
        c \in {<<0, 2, 2>>, <<1, 0, 3>>}}

InitAlg ==
    /\ manual_transform \in ManualChoices
    /\ result \in EstimatedChoices
    /\ combined = None
    /\ reversed = None
    /\ RegIdle
    /\ ImpIdle
    /\ PadIdle

\* lines 185-198 applied to the two transforms
combine ==
    /\ combined = None
    /\ combined' = CombineTransforms(manual_transform, result)
    /\ UNCHANGED <<manual_transform, result, reversed, regVars, impVars, padVars>>

\* lines 185-198 applied to the two transforms exchanged: the optimizer's
\* result in the place of the manual transform and the other way round
combine_reversed ==
    /\ reversed = None
    /\ reversed' = CombineTransforms(result, manual_transform)
    /\ UNCHANGED <<manual_transform, result, combined, regVars, impVars, padVars>>

NextAlg ==
    \/ combine
    \/ combine_reversed

SpecAlg == InitAlg /\ [][NextAlg]_vars

\* points on which two affine maps agree only if they are the same map
Points == {Zero3, <<1, 0, 0>>, <<0, 1, 0>>, <<0, 0, 1>>, <<2, -1, 3>>}

-----------------------------------------------------------------------------
(* Claims about MultiViewRegistration *)

NeverCompleted == last_job = None

\* C1 as stated: on a pipeline on which execute() has never completed a job,
\* get_final_transform() fails with NotReadyError.
C1_FailsWithNotReadyError ==
    (ret.op = "get_final_transform" /\ NeverCompleted)
        => ret.exception = "NotReadyError"

\* C1 amended: on a pipeline on which execute() has never completed a job,
\* get_final_transform() raises nothing and returns None.
C1_ReturnsNone ==
    (ret.op = "get_final_transform" /\ NeverCompleted)
        => (ret.exception = "none" /\ ret.value = None)

\* C1 witness: get_final_transform() answered after executes that were skipped or failed only
C1_Witness ==
    /\ ret.op = "get_final_transform"
    /\ NeverCompleted
    /\ data.active # <<>>

\* C2: the transform execute() stores as final_transform has matrix A0*A1,
\* center c1 and translation A0*(t1 + c1 - c0) + t0 + c0 - c1, where (A0, c0, t0)
\* is the manual transform and (A1, c1, t1) the estimated one of that run.
C2_StoredTransform ==
    last_job # None =>
        LET A0(i, j) == last_job.manual_transform.matrix[3 * (i - 1) + j]
            c0 == last_job.manual_transform.center
            t0 == last_job.manual_transform.translation
            A1(i, j) == last_job.result.matrix[3 * (i - 1) + j]
            c1 == last_job.result.center
            t1 == last_job.result.translation
        IN  /\ \A i \in Axes, j \in Axes :
                 final_transform.matrix[3 * (i - 1) + j]
                     = A0(i, 1) * A1(1, j) + A0(i, 2) * A1(2, j) + A0(i, 3) * A1(3, j)
            /\ final_transform.center = c1
            /\ \A i \in Axes :
                 final_transform.translation[i]
                     = A0(i, 1) * (t1[1] + c1[1] - c0[1])
                       + A0(i, 2) * (t1[2] + c1[2] - c0[2])
                       + A0(i, 3) * (t1[3] + c1[3] - c0[3])
                       + t0[i] + c0[i] - c1[i]

\* C2 witness: a completed execute() with a rotating, translating manual transform
\* and an estimated transform that is not the identity
C2_Witness ==
    /\ last_job # None
    /\ last_job.manual_transform.matrix # flatten(I3)
    /\ last_job.manual_transform.translation # Zero3
    /\ last_job.result.matrix # flatten(I3)
    /\ last_job.result.center # last_job.manual_transform.center
    /\ final_transform.translation # last_job.result.translation

\* C3 as stated: the combined transform is "manual, then estimated":
\* combined(x) = estimated(manual(x)) for every point x.
C3_ManualThenEstimated ==
    combined # None =>
        \A x \in Points :
            TransformPoint(combined, x)
                = TransformPoint(result, TransformPoint(manual_transform, x))

\* C3 amended: the combined transform is "estimated, then manual":
\* combined(x) = manual(estimated(x)) for every point x.
C3_EstimatedThenManual ==
    combined # None =>
        \A x \in Points :
            TransformPoint(combined, x)
                = TransformPoint(manual_transform, TransformPoint(result, x))

\* C3 witness: two transforms combined for which the two orders of application differ
C3_Witness ==
    /\ combined # None
    /\ manual_transform.matrix # flatten(I3)
    /\ manual_transform.translation # Zero3
    /\ result.matrix # flatten(I3)
    /\ result.center # manual_transform.center
    /\ \E x \in Points :
          TransformPoint(result, TransformPoint(manual_transform, x))
              # TransformPoint(manual_transform, TransformPoint(result, x))

\* C4: identity law.  When the manual transform has the identity matrix and
\* zero translation, whatever its center, the combined transform has the
\* estimated transform's matrix, center and translation.
C4_IdentityLaw ==
    (/\ combined # None
     /\ manual_transform.matrix = flatten(I3)
     /\ manual_transform.translation = Zero3)
        => /\ combined.matrix = result.matrix
           /\ combined.center = result.center
           /\ combined.translation = result.translation

\* C4 witness: an identity manual transform with its own center combined with
\* an estimated transform that is not the identity
C4_Witness ==
    /\ combined # None
    /\ manual_transform.matrix = flatten(I3)
    /\ manual_transform.translation = Zero3
    /\ manual_transform.center # Zero3
    /\ manual_transform.center # result.center
    /\ result.matrix # flatten(I3)
    /\ result.translation # Zero3

\* C5 as stated: with a metric name that is not one of the three, construction
\* succeeds (and the failure is left to execute()).
C5_ConstructionSucceeds ==
    options.registration_method \notin SupportedMetrics => constructed = "yes"

\* C5 amended: with a metric name that is not one of the three, __init__ itself
\* raises (ValueError, "Unknown metric"); there is no pipeline object, and no
\* method of it, execute() included, ever runs.
C5_ConstructionRaises ==
    options.registration_method \notin SupportedMetrics
        => /\ constructed = "raised"
           /\ ret = Outcome("__init__", "ValueError", None)
           /\ ~ ENABLED NextReg

\* C5 witness: a construction with an unsupported metric name, which raised
C5_Witness ==
    /\ options.registration_method \notin SupportedMetrics
    /\ constructed = "raised"

Skipped == ret.op = "execute" /\ ret.value = [skipped |-> TRUE]

Failed == ret.op = "execute" /\ ret.exception = "RuntimeError"

Completed ==
    ret.op = "execute" /\ ret.exception = "none" /\ ret.value = [skipped |-> FALSE]

MovingTransformKey == TransformKey(options.scale, moving_index, options.channel)

\* C6: a skipped execute() leaves the stored Transform of the moving key, and
\* every other view and transform of the archive, as it was.
C6_SkipLeavesArchive ==
    [][Skipped' => (data'.views = data.views /\ data'.transforms = data.transforms)]_vars

\* C6 witness: an execute() skipped over a stored transform, after an earlier job completed
C6_Witness ==
    /\ Skipped
    /\ MovingTransformKey \in DOMAIN data.transforms
    /\ final_transform # None

\* C7 as stated: after an execute() that was neither skipped nor failed, the
\* archive holds the combined transform under the moving view's key.
C7_ArchiveHoldsCombined ==
    Completed =>
        /\ MovingTransformKey \in DOMAIN data.transforms
        /\ data.transforms[MovingTransformKey] = StoredTransform(final_transform)

\* C7 amended: an execute() that was neither skipped nor failed leaves the
\* combined transform of its job in final_transform, and writes nothing to the
\* archive: its views and transforms are what they were before the call.
C7_CombinedKeptInPipeline ==
    [][Completed' =>
          /\ final_transform' = CombineTransforms(last_job'.manual_transform, last_job'.result)
          /\ last_job'.moving_index = moving_index
          /\ last_job'.fixed_index = fixed_index
          /\ data'.views = data.views
          /\ data'.transforms = data.transforms]_vars

\* C7 witness: a completed execute() for a moving view the archive has no transform of
C7_Witness ==
    /\ Completed
    /\ MovingTransformKey \notin DOMAIN data.transforms
    /\ final_transform # None

\* C8: an execute() whose optimizer fails writes no view and no transform: the
\* archive's contents after it are its contents before it.
C8_FailureLeavesArchive ==
    [][Failed' => (data'.views = data.views /\ data'.transforms = data.transforms)]_vars

\* C8 witness: an execute() that got as far as the moving image and whose optimizer raised
C8_Witness ==
    /\ Failed
    /\ data.active = ViewKey("original", options.scale, moving_index, options.channel)
    /\ moving_index # fixed_index

\* C9: a transform returned by get_final_transform() was computed by an
\* execute() run for the currently configured (fixed_index, moving_index) pair.
C9_ResultOfCurrentPair ==
    (ret.op = "get_final_transform" /\ ret.exception = "none" /\ ret.value # None)
        => /\ last_job.fixed_index = fixed_index
           /\ last_job.moving_index = moving_index

-----------------------------------------------------------------------------
(* The import script, bin/import.py.  A file name is a sequence of tokens:   *)
(* the words of the naming pattern, "_", ".", numbers and other words.  A   *)
(* Python substring test or split on a pattern made of these tokens is the  *)
(* same test or split on the token sequence.                                *)

\* Files in the directory listing: at most MaxFiles.
MaxFiles == 3

\* definitions.params_c and definitions.image_types_c: the words of the
\* naming pattern documented in the module docstring
params_c == {"scale", "index", "channel", "angle"}

image_types_c == {"original", "registered", "psf"}

DigitTokens == {"0", "1", "50", "90", "100"}

\* x in name
Contains(name, x) == \E i \in 1..Len(name) : name[i] = x

IsAt(s, sep, i) ==
    /\ i + Len(sep) - 1 <= Len(s)
    /\ \A k \in 1..Len(sep) : s[i + k - 1] = sep[k]

Occurrences(s, sep) == {i \in 1..Len(s) : IsAt(s, sep, i)}

SetMin(S) == CHOOSE x \in S : \A y \in S : x <= y

SetMax(S) == CHOOSE x \in S : \A y \in S : x >= y

\* s.split(sep)[0]
SplitFirst(s, sep) ==
    IF Occurrences(s, sep) = {} THEN s
    ELSE SubSeq(s, 1, SetMin(Occurrences(s, sep)) - 1)

\* s.split(sep)[-1]
SplitLast(s, sep) ==
    IF Occurrences(s, sep) = {} THEN s
    ELSE SubSeq(s, SetMax(Occurrences(s, sep)) + Len(sep), Len(s))

\* s.endswith(suffixes), each suffix a "." and an extension
EndsWith(s, extensions) ==
    /\ Len(s) >= 2
    /\ s[Len(s) - 1] = "."
    /\ s[Len(s)] \in extensions

\* str.isdigit(): not empty, digits only
isdigit(s) == s # <<>> /\ \A i \in 1..Len(s) : s[i] \in DigitTokens

\* lines 88-92 (and 120-123): the fields cut out of a name
ParseType(name) == SplitFirst(name, <<"_", "scale">>)

ParseScale(name) == SplitFirst(SplitLast(name, <<"scale", "_">>), <<"_", "index">>)

ParseIndex(name) == SplitFirst(SplitLast(name, <<"index", "_">>), <<"_", "channel">>)

ParseChannel(name) == SplitFirst(SplitLast(name, <<"channel", "_">>), <<"_", "angle">>)

ParseAngle(name) == SplitFirst(SplitLast(name, <<"angle", "_">>), <<".">>)

\* line 84: the name is not recognized as an image name
UnrecognizedImageName(name) ==
    \/ ~ \A x \in params_c : Contains(name, x)
    \/ ~ \E x \in image_types_c : Contains(name, x)

\* line 116: the name is not recognized as a transform name
UnrecognizedTransformName(name) ==
    \/ ~ \A x \in params_c : Contains(name, x)
    \/ ~ Contains(name, "transform")

\* line 94
DigitsAssertion(name) ==
    /\ isdigit(ParseScale(name))
    /\ isdigit(ParseIndex(name))
    /\ isdigit(ParseChannel(name))
    /\ isdigit(ParseAngle(name))

\* a file name following the documented pattern
PatternName(type, scale, index, channel, angle, extension) ==
    <<type, "_", "scale", "_", scale, "_", "index", "_", index, "_",
      "channel", "_", channel, "_", "angle", "_", angle, ".", extension>>

File(name, readable) == [name |-> name, readable |-> readable]

\* the files a directory may hold
FilePool ==
    {File(PatternName("original", "100", "0", "0", "0", "tif"), TRUE),
     File(PatternName("original", "100", "1", "0", "90", "tiff"), TRUE),
     File(PatternName("registered", "100", "1", "0", "90", "mha"), TRUE),
     File(PatternName("psf", "100", "0", "0", "0", "mhd"), TRUE),
     \* a field that is not a number
     File(PatternName("original", "100", "a", "0", "0", "tif"), TRUE),
     \* no angle field
     File(<<"original", "_", "scale", "_", "100", "_", "index", "_", "1", "_",
            "channel", "_", "0", ".", "tif">>, TRUE),
     \* an image file that cannot be read
     File(PatternName("registered", "100", "0", "0", "0", "tif"), FALSE),
     File(PatternName("transform", "100", "1", "0", "90", "txt"), TRUE),
     \* the archive itself
     File(<<"archive", ".", "hdf5">>, TRUE)}

\* os.listdir(directory): the files of the directory in any order
Listings ==
    {l \in UNION {[1..n -> FilePool] : n \in 0..MaxFiles} :
        \A i \in 1..Len(l), j \in 1..Len(l) : i # j => l[i] # l[j]}

\* the command lines tried: options.scales and options.calculate_psfs
ImportOptionChoices ==
    {[scales |-> <<>>, calculate_psfs |-> FALSE],
     [scales |-> <<"50">>, calculate_psfs |-> TRUE]}

EmptyArchive ==
    [views |-> <<>>, transforms |-> <<>>, active |-> <<>>, closed |-> FALSE]

\* ImageData.add_original_image / add_registered_image / add_psf
add_image(d, type, images, scale, index, channel, angle, spacing) ==
    LET key  == ViewKey(type, scale, index, channel)
        view == [images |-> images, angle |-> angle, spacing |-> spacing]
    IN  [d EXCEPT !.views =
            [k \in DOMAIN d.views \cup {key} |-> IF k = key THEN view ELSE d.views[k]]]

\* ImageData.add_transform
add_transform(d, scale, index, channel, params, fixed_params, transform_type) ==
    LET key == TransformKey(scale, index, channel)
        tfm == [type |-> transform_type, parameters |-> params,
                fixed_parameters |-> fixed_params]
    IN  [d EXCEPT !.transforms =
            [k \in DOMAIN d.transforms \cup {key} |->
                IF k = key THEN tfm ELSE d.transforms[k]]]

\* ImageData.create_rescaled_images(type, scale): a copy at the new scale of
\* every scale-100 view of the type
create_rescaled_images(d, type, scale) ==
    LET sources == {k \in DOMAIN d.views : k[1] = type /\ k[2] = <<"100">>}
        targets == {ViewKey(type, scale, k[3], k[4]) : k \in sources}
    IN  [d EXCEPT !.views =
            [k \in DOMAIN d.views \cup targets |->
                IF k \in targets
                THEN LET src == d.views[ViewKey(type, <<"100">>, k[3], k[4])]
                     IN  [src EXCEPT !.images = <<"rescaled", scale, src.images>>]
                ELSE d.views[k]]]

\* ImageData.calculate_missing_psfs: a PSF for every registered view without one
calculate_missing_psfs(d) ==
    LET missing == {ViewKey("psf", k[2], k[3], k[4]) :
                        k \in {r \in DOMAIN d.views : r[1] = "registered"}}
                   \ DOMAIN d.views
    IN  [d EXCEPT !.views =
            [k \in DOMAIN d.views \cup missing |->
                IF k \in missing
                THEN [d.views[ViewKey("registered", k[2], k[3], k[4])]
                        EXCEPT !.images = <<"calculated psf">>]
                ELSE d.views[k]]]

\* ImageData.close
close_archive(d) == [d EXCEPT !.closed = TRUE]

\* utils.get_imagej_tiff / utils.get_itk_image: (images, spacing) of a file
ReadImages(file) == <<"pixels of", file.name>>

ReadSpacing(file) == <<"spacing of", file.name>>

\* utils.read_itk_transform(full_path): (type, params, fixed_params)
ReadTransform(file) ==
    [type |-> "AffineTransform", parameters |-> <<"parameters of", file.name>>,
     fixed_parameters |-> <<"fixed parameters of", file.name>>]

ImageExtensions == {"tiff", "tif", "mhd", "mha"}

\* the for loop, or main(), goes on with the next entry
Continue(next_pos) ==
    /\ pos' = next_pos
    /\ UNCHANGED <<pc, ret>>

\* an exception leaves main()
Raise(exception, name) ==
    /\ pc' = "raised"
    /\ ret' = Outcome("main", exception, name)
    /\ UNCHANGED pos

ImportUnchanged ==
    UNCHANGED <<constructed, options, registration, fixed_index, moving_index,
                final_transform, last_job, algVars, padVars, directory>>

\* lines 74-102: one pass of the first loop, on directory[pos]
import_image ==
    /\ pc = "images" /\ pos <= Len(directory)
    /\ LET file == directory[pos]
           name == file.name
           scale   == ParseScale(name)
           index   == ParseIndex(name)
           channel == ParseChannel(name)
           angle   == ParseAngle(name)
           image_type == ParseType(name)
       IN  /\ image_name' = name
           /\ IF ~ EndsWith(name, ImageExtensions)
              THEN Continue(pos + 1) /\ UNCHANGED <<data, warnings, added>>
              ELSE IF ~ file.readable
              THEN Raise("UnreadableImageError", name) /\ UNCHANGED <<data, warnings, added>>
              ELSE IF UnrecognizedImageName(name)
              THEN /\ warnings' = warnings \cup {name}
                   /\ Continue(pos + 1) /\ UNCHANGED <<data, added>>
              ELSE IF ~ DigitsAssertion(name)
              THEN Raise("AssertionError", name) /\ UNCHANGED <<data, warnings, added>>
              ELSE IF image_type \in {<<"original">>, <<"registered">>, <<"psf">>}
              THEN /\ data' = add_image(data, image_type[1], ReadImages(file), scale,
                                        index, channel, angle, ReadSpacing(file))
                   /\ added' = added \cup {name}
                   /\ Continue(pos + 1) /\ UNCHANGED warnings
              ELSE Continue(pos + 1) /\ UNCHANGED <<data, warnings, added>>
    /\ ImportUnchanged

\* lines 104-108: the first loop is over; the rescaled copies
rescale ==
    /\ pc = "images" /\ pos > Len(directory)
    /\ data' = IF options.scales = <<>> THEN data
               ELSE create_rescaled_images(data, "original", <<options.scales[1]>>)
    /\ pc' = "transforms"
    /\ pos' = 1
    /\ UNCHANGED <<ret, image_name, warnings, added>>
    /\ ImportUnchanged

\* import_transform without the add_registered_image call of line 140
import_transform_unresampled ==
    /\ pc = "transforms" /\ pos <= Len(directory)
    /\ LET file == directory[pos]
           transform_name == file.name
           scale   == ParseScale(image_name)
           index   == ParseIndex(image_name)
           channel == ParseChannel(image_name)
           angle   == ParseAngle(image_name)
           tfm == ReadTransform(file)
           d1 == set_active_image(data, <<"0">>, channel, scale, "original")
           reference == get_itk_image(d1)
           d2 == set_active_image(d1, index, channel, scale, "original")
           moving == get_itk_image(d2)
           registered == <<"resampled", moving, tfm.parameters, reference>>
           d3 == add_image(d2, "registered", registered, scale, index, channel, angle,
                           <<"spacing of", registered>>)
       IN  IF ~ EndsWith(transform_name, {"txt"})
           THEN Continue(pos + 1) /\ UNCHANGED <<data, warnings, added>>
           ELSE IF UnrecognizedTransformName(transform_name)
           THEN /\ warnings' = warnings \cup {transform_name}
                /\ Continue(pos + 1) /\ UNCHANGED <<data, added>>
           ELSE IF check_if_exists(data, "registered", index, channel, scale)
           THEN /\ data' = add_transform(data, scale, index, channel, tfm.parameters,
                                         tfm.fixed_parameters, tfm.type)
                /\ added' = added \cup {transform_name}
                /\ Continue(pos + 1) /\ UNCHANGED warnings
           ELSE IF ~ can_set_active_image(data, <<"0">>, channel, scale, "original")
           THEN Raise("NotFoundError", transform_name) /\ UNCHANGED <<data, warnings, added>>
           ELSE IF ~ can_set_active_image(d1, index, channel, scale, "original")
           THEN /\ data' = d1
                /\ Raise("NotFoundError", transform_name) /\ UNCHANGED <<warnings, added>>
           ELSE /\ data' = add_transform(d2, scale, index, channel, tfm.parameters,
                                         tfm.fixed_parameters, tfm.type)
                /\ added' = added \cup {transform_name}
                /\ Continue(pos + 1) /\ UNCHANGED warnings
    /\ UNCHANGED image_name
    /\ ImportUnchanged

\* lines 112-144: one pass of the second loop, on directory[pos]
import_transform ==
    /\ pc = "transforms" /\ pos <= Len(directory)
    /\ LET file == directory[pos]
           transform_name == file.name
           scale   == ParseScale(image_name)
           index   == ParseIndex(image_name)
           channel == ParseChannel(image_name)
           angle   == ParseAngle(image_name)
           tfm == ReadTransform(file)
           d1 == set_active_image(data, <<"0">>, channel, scale, "original")
           reference == get_itk_image(d1)
           d2 == set_active_image(d1, index, channel, scale, "original")
           moving == get_itk_image(d2)
           registered == <<"resampled", moving, tfm.parameters, reference>>
           d3 == add_image(d2, "registered", registered, scale, index, channel, angle,
                           <<"spacing of", registered>>)
       IN  IF ~ EndsWith(transform_name, {"txt"})
           THEN Continue(pos + 1) /\ UNCHANGED <<data, warnings, added>>
           ELSE IF UnrecognizedTransformName(transform_name)
           THEN /\ warnings' = warnings \cup {transform_name}
                /\ Continue(pos + 1) /\ UNCHANGED <<data, added>>
           ELSE IF check_if_exists(data, "registered", index, channel, scale)
           THEN /\ data' = add_transform(data, scale, index, channel, tfm.parameters,
                                         tfm.fixed_parameters, tfm.type)
                /\ added' = added \cup {transform_name}
                /\ Continue(pos + 1) /\ UNCHANGED warnings
           ELSE IF ~ can_set_active_image(data, <<"0">>, channel, scale, "original")
           THEN Raise("NotFoundError", transform_name) /\ UNCHANGED <<data, warnings, added>>
           ELSE IF ~ can_set_active_image(d1, index, channel, scale, "original")
           THEN /\ data' = d1
                /\ Raise("NotFoundError", transform_name) /\ UNCHANGED <<warnings, added>>
           ELSE /\ data' = add_transform(d3, scale, index, channel, tfm.parameters,
                                         tfm.fixed_parameters, tfm.type)
                /\ added' = added \cup {transform_name}
                /\ Continue(pos + 1) /\ UNCHANGED warnings
    /\ UNCHANGED image_name
    /\ ImportUnchanged

\* lines 146-148: the second loop is over; the missing PSFs
calculate_psfs ==
    /\ pc = "transforms" /\ pos > Len(directory)
    /\ data' = IF options.calculate_psfs THEN calculate_missing_psfs(data) ELSE data
    /\ pc' = "close"
    /\ UNCHANGED <<pos, ret, image_name, warnings, added>>
    /\ ImportUnchanged

\* line 150
close ==
    /\ pc = "close"
    /\ data' = close_archive(data)
    /\ pc' = "done"
    /\ ret' = Outcome("main", "none", None)
    /\ UNCHANGED <<pos, image_name, warnings, added>>
    /\ ImportUnchanged

\* lines 64-71: main() up to the first loop
InitImport ==
    /\ directory \in Listings
    /\ options \in ImportOptionChoices
    /\ data = EmptyArchive
    /\ pc = "images" /\ pos = 1 /\ image_name = <<>>
    /\ warnings = {} /\ added = {}
    /\ ret = Outcome("main", "running", None)
    /\ constructed = "no" /\ registration = None
    /\ fixed_index = 0 /\ moving_index = 1 /\ final_transform = None
    /\ last_job = None
    /\ AlgIdle
    /\ PadIdle

NextImport ==
    \/ import_image
    \/ rescale
    \/ import_transform
    \/ calculate_psfs
    \/ close

SpecImport == InitImport /\ [][NextImport]_vars

-----------------------------------------------------------------------------
(* Claims about the import script *)

Stopped == pc \in {"done", "raised"}

\* an image file the first loop cannot import
BadImageFile(f) ==
    /\ EndsWith(f.name, ImageExtensions)
    /\ \/ ~ f.readable
       \/ UnrecognizedImageName(f.name)
       \/ ~ DigitsAssertion(f.name)

\* a readable image file named after the pattern
GoodImageFile(f) ==
    /\ EndsWith(f.name, ImageExtensions)
    /\ f.readable
    /\ ~ UnrecognizedImageName(f.name)
    /\ DigitsAssertion(f.name)
    /\ ParseType(f.name) \in {<<"original">>, <<"registered">>, <<"psf">>}

FilesOf(l) == {l[i] : i \in 1..Len(l)}

\* C10: a single image file that cannot be imported does not abort the batch.
\* In a directory without transform files and with one such file, main() ends
\* with every well-named readable image added and the archive closed.
C10_BadFileDoesNotAbort ==
    (/\ Stopped
     /\ Cardinality({f \in FilesOf(directory) : BadImageFile(f)}) = 1
     /\ \A f \in FilesOf(directory) : ~ EndsWith(f.name, {"txt"}))
        => /\ pc = "done"
           /\ data.closed
           /\ \A f \in FilesOf(directory) : GoodImageFile(f) => f.name \in added

\* the transform file whose parameters a stored transform holds
SourceOf(transform) == transform.parameters[2]

OwnKey(name) == TransformKey(ParseScale(name), ParseIndex(name), ParseChannel(name))

\* C11: every transform that add_transform stored is stored under the
\* (scale, index, channel) key parsed from its own file's name.
C11_StoredUnderOwnKey ==
    \A k \in DOMAIN data.transforms : k = OwnKey(SourceOf(data.transforms[k]))

RegisteredKeyOf(k) == ViewKey("registered", k[1], k[2], k[3])

-----------------------------------------------------------------------------
(* Claims about the order of the combination *)

\* a quarter turn about the first axis, around the center (0, 2, 2)
QuarterTurn == Euler3DTransform(<<0, 2, 2>>, 90, 0, 0, Zero3)

\* a scaling of the first and third axes with an offset, around the center (1, 0, 3)
Scaling ==
    AffineTransform(flatten(<<<<2, 0, 0>>, <<0, 1, 0>>, <<0, 0, 3>>>>), <<0, 1, -1>>, <<1, 0, 3>>)

BothCombined == combined # None /\ reversed # None

\* C13: the combination is not commutative.  QuarterTurn and Scaling are
\* transforms other than the identity, with different centers, and combining
\* (manual = QuarterTurn, estimated = Scaling) gives another matrix or another
\* translation than combining (manual = Scaling, estimated = QuarterTurn).
C13_OrderMatters ==
    (BothCombined /\ manual_transform = QuarterTurn /\ result = Scaling)
        => \/ combined.matrix # reversed.matrix
           \/ combined.translation # reversed.translation

\* C13 witness: the two transforms, which are not the identity and have
\* different centers, combined in both orders, with both the matrices and the
\* translations differing
C13_Witness ==
    /\ BothCombined
    /\ manual_transform = QuarterTurn /\ result = Scaling
    /\ manual_transform.matrix # flatten(I3) /\ result.matrix # flatten(I3)
    /\ manual_transform.center # result.center
    /\ combined.matrix # reversed.matrix
    /\ combined.translation # reversed.translation

\* Not every pair behaves so: two pure translations with different centers
\* combine to the same matrix and translation in both orders.
SomePairCommutes ==
    /\ BothCombined
    /\ manual_transform.translation # Zero3 /\ result.translation # Zero3
    /\ manual_transform.center # result.center
    /\ combined.matrix = reversed.matrix
    /\ combined.translation = reversed.translation

-----------------------------------------------------------------------------
(* Padding of arrays: processing/ndarray.py.
   An array is a record of its shape, its dtype and its elements, a function
   of the 0-based index tuples.  A shape is a tuple of 2 or 3 lengths. *)

MaxSide == 2    \* longest axis of an array handed to expand_to_shape
MaxPad == 2     \* most padding asked for on one axis

\* numpy.uint8 with the bounds numpy.iinfo reports for it
uint8 == [name |-> "uint8", min |-> 0, max |-> 255]

Tuple(f, n) == IF n = 3 THEN <<f[1], f[2], f[3]>> ELSE <<f[1], f[2]>>

\* the index tuples of an array of the given shape
ndindex(shp) ==
    IF Len(shp) = 3
    THEN {<<i, j, k>> : i \in 0..(shp[1] - 1), j \in 0..(shp[2] - 1), k \in 0..(shp[3] - 1)}
    ELSE {<<i, j>> : i \in 0..(shp[1] - 1), j \in 0..(shp[2] - 1)}

\* where a bound i of a slice falls on an axis of length n: negative bounds
\* count from the end, and bounds are clipped to the axis
SliceBound(i, n) ==
    IF i < 0 THEN (IF i + n < 0 THEN 0 ELSE i + n)
             ELSE (IF i > n THEN n ELSE i)

\* arr[starts[1]:stops[1], starts[2]:stops[2], ...]
getitem(arr, starts, stops) ==
    LET n == Len(arr.shape)
        lo == Tuple([i \in 1..n |-> SliceBound(starts[i], arr.shape[i])], n)
        hi == Tuple([i \in 1..n |-> SliceBound(stops[i], arr.shape[i])], n)
        len == Tuple([i \in 1..n |-> IF hi[i] > lo[i] THEN hi[i] - lo[i] ELSE 0], n)
    IN  [shape |-> len,
         dtype |-> arr.dtype,
         at |-> [idx \in ndindex(len) |->
                    arr.at[Tuple([i \in 1..n |-> idx[i] + lo[i]], n)]]]

\* cast_to_dtype with rescale = False and remove_outliers = False, for integer
\* dtypes: the array itself when it has the dtype already (lines 129-130),
\* else its elements clipped to the dtype's range (lines 132-157)
cast_to_dtype(arr, dtype) ==
    IF arr.dtype = dtype
    THEN arr
    ELSE LET data_max == IF dtype.name = "uint8" THEN 255 ELSE dtype.max
             data_min == IF dtype.name = "uint8" THEN 0 ELSE dtype.min
             clipped(v) == IF v < data_min THEN data_min
                           ELSE IF v > data_max THEN data_max ELSE v
         IN  [shape |-> arr.shape,
              dtype |-> dtype,
              at |-> [idx \in DOMAIN arr.at |-> clipped(arr.at[idx])]]

\* expand_to_shape, lines 54-93
expand_to_shape(arr, shp, dtype, background) ==
    LET n == Len(arr.shape)
        dt == IF dtype = None THEN arr.dtype ELSE dtype
        start_index == Tuple([i \in 1..n |-> shp[i] - arr.shape[i]], n)
        data_start ==
            Tuple([i \in 1..n |-> IF start_index[i] < 0 THEN 0 - start_index[i] ELSE 0], n)
        cropped == getitem(cast_to_dtype(arr, dt), data_start, arr.shape)
        bg == IF background = None THEN 0 ELSE background
        \* lines 79-84; k is the number of turns of the while loop
        k(i) == LET a0 == (shp[i] - cropped.shape[i] + 1) \div 2
                IN  IF a0 < 0 THEN 0 - a0 ELSE 0
        a(i) == (shp[i] - cropped.shape[i] + 1) \div 2 + k(i)
        b(i) == (shp[i] + cropped.shape[i] + 1) \div 2 - k(i)
        c(i) == k(i)
        d(i) == cropped.shape[i] - k(i)
        inside(idx) == \A i \in 1..n : a(i) <= idx[i] /\ idx[i] < b(i)
    IN  IF shp # cropped.shape
        THEN IF \E i \in 1..n : b(i) - a(i) # d(i) - c(i)
             THEN [exception |-> "ValueError"]
             ELSE [shape |-> shp,
                   dtype |-> dt,
                   at |-> [idx \in ndindex(shp) |->
                              IF inside(idx)
                              THEN cropped.at[Tuple([i \in 1..n |-> idx[i] - a(i) + c(i)], n)]
                              ELSE bg]]
        ELSE cropped

\* s <= t for two tuples, as Python compares them: the first position where
\* they differ decides, and a prefix is smaller
TupleLeq(s, t) ==
    LET n == IF Len(s) < Len(t) THEN Len(s) ELSE Len(t)
        diff == {i \in 1..n : s[i] # t[i]}
    IN  IF diff = {} THEN Len(s) <= Len(t)
        ELSE \E i \in diff : (\A j \in diff : i <= j) /\ s[i] < t[i]

\* contract_to_shape, lines 35-52
contract_to_shape(arr, shp) ==
    IF ~ TupleLeq(shp, arr.shape)
    THEN [exception |-> "AssertionError"]
    ELSE IF shp # arr.shape
         THEN LET n == Len(arr.shape)
              IN  getitem(arr,
                          Tuple([i \in 1..n |-> (arr.shape[i] - shp[i]) \div 2], n),
                          Tuple([i \in 1..n |-> (arr.shape[i] + shp[i]) \div 2], n))
         ELSE arr

\* the shapes of the arrays of the model, and the padding asked for
Shapes ==
    {<<i, j>> : i \in 1..MaxSide, j \in 1..MaxSide}
        \cup {<<i, j, k>> : i \in 1..MaxSide, j \in 1..MaxSide, k \in 1..MaxSide}

Paddings ==
    {<<i, j>> : i \in 0..MaxPad, j \in 0..MaxPad}
        \cup {<<i, j, k>> : i \in 0..MaxPad, j \in 0..MaxPad, k \in 0..MaxPad}

\* an array whose elements are 1, 2, 3, ... in row-major order: all different,
\* and none equal to the background 0
Labelled(shp) ==
    [shape |-> shp,
     dtype |-> uint8,
     at |-> [idx \in ndindex(shp) |->
                IF Len(shp) = 3
                THEN (idx[1] * shp[2] + idx[2]) * shp[3] + idx[3] + 1
                ELSE idx[1] * shp[2] + idx[2] + 1]]

InitPad ==
    /\ \E s \in Shapes, p \in Paddings :
          /\ Len(s) = Len(p)
          /\ array = Labelled(s)
          /\ target_shape = Tuple([i \in 1..Len(s) |-> s[i] + p[i]], Len(s))
    /\ expanded_data = None
    /\ contracted = None
    /\ RegIdle
    /\ AlgIdle
    /\ ImpIdle

\* expand_to_shape(data, shape)
expand ==
    /\ expanded_data = None
    /\ expanded_data' = expand_to_shape(array, target_shape, None, None)
    /\ UNCHANGED <<array, target_shape, contracted, regVars, algVars, impVars>>

\* contract_to_shape(expand_to_shape(data, shape), data.shape)
contract ==
    /\ expanded_data # None
    /\ contracted = None
    /\ contracted' = contract_to_shape(expanded_data, array.shape)
    /\ UNCHANGED <<array, target_shape, expanded_data, regVars, algVars, impVars>>

NextPad ==
    \/ expand
    \/ contract

SpecPad == InitPad /\ [][NextPad]_vars

-----------------------------------------------------------------------------
(* Claims about padding *)

Padding(i) == target_shape[i] - array.shape[i]

\* C14: padding round trip.  For every array and every target shape at least
\* as large on every axis, contract_to_shape(expand_to_shape(data, shape),
\* data.shape) is data itself: the same shape and the same element at every
\* position, odd amounts of padding included.
C14_RoundTrip ==
    contracted # None => contracted = array

\* What the code does instead: the round trip returns the array exactly when
\* the padding is even on every axis.
RoundTripIffEvenPadding ==
    contracted # None =>
        (contracted = array <=> \A i \in 1..Len(target_shape) : Padding(i) % 2 = 0)

\* an odd amount of padding on some axis, and the round trip made
OddPaddingRoundTrip ==
    /\ contracted # None
    /\ \E i \in 1..Len(target_shape) : Padding(i) % 2 = 1

====
